---- MODULE Spec2Model ----
(***************************************************************************)
(* Model of regression_model/blstm_AlphaSeq_tapes.py: the sequence         *)
(* embedder (Transformer), the labelled sequence dataset                   *)
(* (AlphpaSeqDataset), the train/test split of __main__ and the            *)
(* train/evaluate loop (run_lstm, save_model).                             *)
(*                                                                         *)
(* Python values are modelled as follows.  A str is the sequence of its    *)
(* characters, a list or a 1-d array is a sequence (Python index i is TLA+ *)
(* index i + 1), a tensor is its shape plus, where the code fixes them,    *)
(* its entries.  A call that raises is a record whose "outcome" names the  *)
(* exception; sys.exit(1) after a print to stderr is the outcome "exit"    *)
(* with the printed message.                                               *)
(***************************************************************************)
EXTENDS Integers, Sequences, FiniteSets, TLC

\* ---------------------------------------------------------------- bounds
MaxSeqLen == 3      \* longest sequence / max_len handed to embed
MaxRows == 3        \* most data rows of the csv file
MaxIdx == 4         \* __getitem__ is tried on -MaxIdx .. MaxIdx
MaxN == 40          \* largest dataset length the split sizes are computed for
MaxSplit == 33      \* largest train_set / test_set handed to run_lstm
MaxEpochs == 2      \* largest n_epochs

VARIABLES
    method,     \* Transformer.method ("none" before __init__)
    tpc,        \* embedder: "new", "ready", "exit" (sys.exit), "dead" (raised)
    emb,        \* the last embed call: its arguments and what it gave
    csv_file,   \* the file named by csv_file: whether it exists, and its lines
    dpc,        \* dataset: "new", "loaded", "split", "dead" (__getitem__ ended
                \* the process), or how __init__ ended
    labels, seqs, log10_ka, _longest_seq,   \* AlphpaSeqDataset fields
    item,       \* the last __getitem__ call: its index and what it gave
    train_set, test_set,                    \* random_split's two subsets
    rpc,        \* run_lstm: "call", "for", "train", "test", "append", "save", "done"
    n_epochs, batch_size, train_n, test_n,  \* run_lstm's arguments
    epoch, train_left, test_left,           \* loop position
    train_batches, test_batches,            \* batches executed in this epoch
    train_loss, test_loss,
    train_loss_history, test_loss_history,
    params,     \* number of optimizer steps applied to the model parameters
    grad,       \* the gradient the parameters hold: the backward pass that set it
    checkpoint  \* the file save_as + '.model_save'

embVars == <<method, tpc, emb>>
dataVars == <<csv_file, dpc, labels, seqs, log10_ka, _longest_seq, item,
              train_set, test_set>>
runVars == <<rpc, n_epochs, batch_size, train_n, test_n, epoch, train_left,
             test_left, train_batches, test_batches, train_loss, test_loss,
             train_loss_history, test_loss_history, params, grad,
             checkpoint>>
vars == <<embVars, dataVars, runVars>>

\* A file that does not exist.
NoFile == [exists |-> FALSE]

\* ------------------------------------------------------------ small helpers
RECURSIVE SeqMax(_)
SeqMax(s) == IF Len(s) = 0 THEN 0
             ELSE LET m == SeqMax(Tail(s)) IN IF Head(s) > m THEN Head(s) ELSE m

RECURSIVE SeqSum(_)
SeqSum(s) == IF Len(s) = 0 THEN 0 ELSE Head(s) + SeqSum(Tail(s))

SeqsUpTo(S, n) == UNION {[1..k -> S] : k \in 0..n}

Range(s) == {s[i] : i \in 1..Len(s)}

\* ---------------------------------------------------- TAPETokenizer('iupac')
\* The tokenizer is the tape package's (imported at line 18, built at line 24
\* with vocab='iupac'): the vocabulary in id order, ids starting at 0.
IUPAC_VOCAB == <<"<pad>", "<mask>", "<cls>", "<sep>", "<unk>",
                 "A", "B", "C", "D", "E", "F", "G", "H", "I", "K", "L", "M",
                 "N", "O", "P", "Q", "R", "S", "T", "U", "V", "W", "X", "Y",
                 "Z">>

vocab_size == Len(IUPAC_VOCAB)

\* Characters the modelled inputs are built from; "J" is not in the vocabulary.
Alphabet == {"A", "C", "Z", "J"}

in_vocab(t) == t \in Range(IUPAC_VOCAB)

\* convert_token_to_id: vocab[token]; KeyError when the token is not a key.
convert_token_to_id(t) ==
    (CHOOSE i \in 1..Len(IUPAC_VOCAB) : IUPAC_VOCAB[i] = t) - 1

\* encode: tokenize per character, add <cls> and <sep>, convert to ids.
encode(seq) ==
    IF \E i \in 1..Len(seq) : ~in_vocab(seq[i])
    THEN [outcome |-> "KeyError"]
    ELSE [outcome |-> "return",
          ids |-> <<convert_token_to_id("<cls>")>>
                  \o [i \in 1..Len(seq) |-> convert_token_to_id(seq[i])]
                  \o <<convert_token_to_id("<sep>")>>]

\* np.pad(a, (0, pad_len), 'constant'): pad_len zeros on the right;
\* a negative pad_len raises ValueError.
np_pad(a, pad_len) ==
    IF pad_len < 0 THEN [outcome |-> "ValueError"]
    ELSE [outcome |-> "return", arr |-> a \o [i \in 1..pad_len |-> 0]]

\* nn.functional.one_hot(token) with num_classes left at -1: the number of
\* classes is one more than the largest id in the input. token is
\* [padded_token], so the result has shape [1, len, classes].
one_hot(padded) ==
    LET classes == SeqMax(padded) + 1
    IN [shape |-> <<1, Len(padded), classes>>,
        rows |-> [p \in 1..Len(padded) |->
                    [c \in 1..classes |-> IF c = padded[p] + 1 THEN 1 ELSE 0]]]

\* torch.squeeze: drops every dimension of size 1.
squeeze(shape) == SelectSeq(shape, LAMBDA d : d # 1)

\* ProteinBertModel 'bert-base': per-position embeddings of width 768.
HIDDEN_SIZE == 768

\* Transformer._embed_one_hot
_embed_one_hot(max_len, seq) ==
    LET _token == encode(seq)       \* line 90, outside the try block
    IN IF _token.outcome # "return" THEN [outcome |-> _token.outcome]
       ELSE LET padded == np_pad(_token.ids, max_len - Len(seq))
            IN IF padded.outcome # "return"
               THEN [outcome |-> padded.outcome]   \* not a KeyError: uncaught
               ELSE [outcome |-> "return",
                     shape |-> one_hot(padded.arr).shape,
                     rows |-> one_hot(padded.arr).rows]

\* Transformer._embed_tape
_embed_tape(max_len, seq) ==
    LET _token == encode(seq)
    IN IF _token.outcome # "return" THEN [outcome |-> _token.outcome]
       ELSE LET padded == np_pad(_token.ids, max_len - Len(seq))
            IN IF padded.outcome # "return"
               \* the ValueError is caught and printed, token stays unbound
               \* and line 84 reads it
               THEN [outcome |-> "UnboundLocalError"]
               ELSE [outcome |-> "return",
                     shape |-> squeeze(<<1, Len(padded.arr), HIDDEN_SIZE>>),
                     token |-> padded.arr]

\* Transformer.embed
embed(m, max_len, seq) ==
    IF m = "one_hot" THEN _embed_one_hot(max_len, seq)
    ELSE IF m = "tape" THEN _embed_tape(max_len, seq)
    ELSE [outcome |-> "exit", stderr |-> <<"Undefined embedding method", m>>]

\* Transformer.__init__
Methods == {"one_hot", "tape", "glove"}

TransformerInit ==
    /\ tpc = "new"
    /\ \E m \in Methods :
         IF m \in {"one_hot", "tape"}
         THEN method' = m /\ tpc' = "ready" /\ emb' = emb
         ELSE /\ method' = method
              /\ tpc' = "exit"
              /\ emb' = [res |-> [outcome |-> "exit",
                                  stderr |-> <<"unimplemented transform method">>]]
    /\ UNCHANGED <<dataVars, runVars>>

\* A call of Transformer.embed(max_len, seq); anything but a return ends
\* the process.
Embed ==
    /\ tpc = "ready"
    /\ \E max_len \in 0..MaxSeqLen, seq \in SeqsUpTo(Alphabet, MaxSeqLen) :
         LET res == embed(method, max_len, seq)
         IN /\ emb' = [max_len |-> max_len, seq |-> seq, res |-> res]
            /\ tpc' = IF res.outcome = "return" THEN "ready" ELSE "dead"
    /\ UNCHANGED <<method, dataVars, runVars>>

\* ------------------------------------------------------- AlphpaSeqDataset
\* A line of the csv file is the list line.split(',') gives: 15 columns.
\* The sequence column is a str the code measures, so a sequence of
\* characters; the other columns are whole strings.
Line(label, seq, ka) == <<label, seq>> \o [i \in 1..12 |-> "x"] \o <<ka>>

Header == Line("POI", <<"S", "e", "q">>, "log10_ka")

\* np.float32(text): the values are kept in tenths.
np_float32(text) ==
    CASE text = "1.0" -> [outcome |-> "return", value |-> 10]
      [] text = "1.5" -> [outcome |-> "return", value |-> 15]
      [] text = "3.0" -> [outcome |-> "return", value |-> 30]
      [] OTHER -> [outcome |-> "ValueError"]

\* _load_csv: skip the first line, then column 0, 1 and 14 of every line.
_load_csv(file) ==
    IF ~file.exists
    THEN [outcome |-> "exit", stderr |-> <<"File not found error">>]
    ELSE LET rows == Tail(file.lines)     \* next(fh)
         IN IF \E i \in 1..Len(rows) : np_float32(rows[i][15]).outcome # "return"
            THEN [outcome |-> "ValueError"]
            ELSE [outcome |-> "return",
                  labels |-> [i \in 1..Len(rows) |-> rows[i][1]],
                  seqs |-> [i \in 1..Len(rows) |-> rows[i][2]],
                  log10_ka |-> [i \in 1..Len(rows) |-> np_float32(rows[i][15]).value]]

\* The length of the first sequence instead of the longest.
longest_seq_first(ss) ==
    IF Len(ss) = 0 THEN [outcome |-> "ValueError"]
    ELSE [outcome |-> "return", value |-> Len(ss[1])]

\* len(max(self.seqs, key=len)); max() of an empty list raises ValueError.
longest_seq(ss) ==
    IF Len(ss) = 0 THEN [outcome |-> "ValueError"]
    ELSE [outcome |-> "return", value |-> SeqMax([i \in 1..Len(ss) |-> Len(ss[i])])]

\* AlphpaSeqDataset.__init__
LoadCsv ==
    /\ dpc = "new"
    /\ LET got == _load_csv(csv_file)
       IN IF got.outcome # "return"
          THEN /\ dpc' = got.outcome
               /\ UNCHANGED <<labels, seqs, log10_ka, _longest_seq>>
          ELSE /\ labels' = got.labels
               /\ seqs' = got.seqs
               /\ log10_ka' = got.log10_ka
               /\ LET longest == longest_seq(got.seqs)
                  IN IF longest.outcome # "return"
                     THEN dpc' = longest.outcome /\ _longest_seq' = _longest_seq
                     ELSE dpc' = "loaded" /\ _longest_seq' = longest.value
    /\ UNCHANGED <<csv_file, item, train_set, test_set, embVars, runVars>>

\* AlphpaSeqDataset.__len__
__len__ == Len(labels)

\* Python list indexing: -len .. -1 count from the end, anything outside
\* -len .. len-1 raises IndexError.
in_list_range(idx, n) == idx >= -n /\ idx < n

list_pos(idx, n) == (IF idx < 0 THEN idx + n ELSE idx) + 1

\* __getitem__ without its except clause: the IndexError escapes.
__getitem__uncaught(idx) ==
    IF ~in_list_range(idx, Len(seqs))
    THEN [outcome |-> "IndexError"]
    ELSE LET features == embed(method, _longest_seq, seqs[list_pos(idx, Len(seqs))])
         IN IF features.outcome # "return"
            THEN [outcome |-> features.outcome]
            ELSE [outcome |-> "return",
                  label |-> labels[list_pos(idx, Len(labels))],
                  features |-> features,
                  target |-> log10_ka[list_pos(idx, Len(log10_ka))]]

\* AlphpaSeqDataset.__getitem__
__getitem__(idx) ==
    IF ~in_list_range(idx, Len(seqs))      \* self.seqs[idx] raises IndexError
    THEN [outcome |-> "exit",
          stderr |-> [text |-> "List index out of range", idx |-> idx,
                      length |-> Len(labels)]]
    ELSE LET features == embed(method, _longest_seq, seqs[list_pos(idx, Len(seqs))])
         IN IF features.outcome # "return"
            THEN [outcome |-> features.outcome]     \* not an IndexError
            ELSE [outcome |-> "return",
                  label |-> labels[list_pos(idx, Len(labels))],
                  features |-> features,
                  target |-> log10_ka[list_pos(idx, Len(log10_ka))]]

GetItem ==
    /\ dpc = "loaded"
    /\ \E idx \in -MaxIdx..MaxIdx :
         LET res == __getitem__(idx)
         IN /\ item' = [idx |-> idx, res |-> res]
            /\ dpc' = IF res.outcome = "return" THEN "loaded" ELSE "dead"
    /\ UNCHANGED <<csv_file, labels, seqs, log10_ka, _longest_seq,
                   train_set, test_set, embVars, runVars>>

\* ------------------------------------------------------- the split (__main__)
\* int(0.8 * n): 0.8 is the double just above 4/5, and for the n of this
\* model the product stays within 1/5 of 4n/5 rounded to a double, so the
\* truncation is that of 4n/5.
\* round(0.8 * n) instead of int(0.8 * n).
TRAIN_SIZE_rounded(n) == (8 * n + 5) \div 10

TRAIN_SIZE(n) == (8 * n) \div 10

TEST_SIZE(n) == n - TRAIN_SIZE(n)

Perms(n) == {p \in [1..n -> 0..(n - 1)] : \A i, j \in 1..n : p[i] = p[j] => i = j}

\* random_split(dataset, lengths): consecutive slices of a random permutation
\* of the indices.
random_split(perm, lengths) ==
    [k \in 1..Len(lengths) |->
        SubSeq(perm, SeqSum(SubSeq(lengths, 1, k - 1)) + 1,
                     SeqSum(SubSeq(lengths, 1, k)))]

RandomSplit ==
    /\ dpc = "loaded"
    /\ \E perm \in Perms(__len__) :
         LET parts == random_split(perm, <<TRAIN_SIZE(__len__), TEST_SIZE(__len__)>>)
         IN train_set' = parts[1] /\ test_set' = parts[2]
    /\ dpc' = "split"
    /\ UNCHANGED <<csv_file, labels, seqs, log10_ka, _longest_seq, item,
                   embVars, runVars>>

\* ------------------------------------------------------------------ run_lstm
BATCH_SIZE == 32    \* the module-level constant of __main__

\* Values a batch's summed squared error is drawn from.
LossVals == {0, 1}

\* Values of the batch_size argument.
BatchSizeArgs == {BATCH_SIZE, 2 * BATCH_SIZE}

\* Batches a DataLoader(dataset, batch_size=bs) yields (drop_last is False).
num_batches(size, bs) == (size + bs - 1) \div bs

\* The loaders of lines 234-235 take the module-level BATCH_SIZE, not the
\* batch_size argument.
loader_batch_size(arg) == BATCH_SIZE

\* save_model: the dictionary torch.save writes.
save_model(model_state, optimizer_state, ep) ==
    [exists |-> TRUE, epoch |-> ep, model_state_dict |-> model_state,
     optimizer_state_dict |-> optimizer_state]

\* optimizer.state_dict() of SGD(model.parameters(), L_RATE): plain SGD keeps
\* no per-parameter state, only its settings.
optimizer_state_dict == [lr |-> "1e-5"]

\* lines 220-229
RunLstm ==
    /\ rpc = "call"
    /\ train_loss_history' = <<>>
    /\ test_loss_history' = <<>>
    /\ rpc' = "for"
    /\ UNCHANGED <<n_epochs, batch_size, train_n, test_n, epoch, train_left,
                   test_left, train_batches, test_batches, train_loss,
                   test_loss, params, grad, checkpoint, embVars, dataVars>>

\* lines 230-235: the next epoch of range(1, n_epochs + 1)
EpochBegin ==
    /\ rpc = "for"
    /\ epoch < n_epochs
    /\ epoch' = epoch + 1
    /\ train_loss' = 0
    /\ test_loss' = 0
    /\ train_left' = num_batches(train_n, loader_batch_size(batch_size))
    /\ test_left' = num_batches(test_n, loader_batch_size(batch_size))
    /\ train_batches' = 0
    /\ test_batches' = 0
    /\ rpc' = "train"
    /\ UNCHANGED <<n_epochs, batch_size, train_n, test_n, train_loss_history,
                   test_loss_history, params, grad, checkpoint, embVars,
                   dataVars>>

\* lines 238-245: one training batch
TrainBatch ==
    /\ rpc = "train"
    /\ train_left > 0
    /\ \E batch_loss \in LossVals : train_loss' = train_loss + batch_loss
    /\ grad' = params + 1           \* zero_grad, then backward
    /\ params' = params + 1         \* optimizer.step()
    /\ train_left' = train_left - 1
    /\ train_batches' = train_batches + 1
    /\ UNCHANGED <<rpc, n_epochs, batch_size, train_n, test_n, epoch, test_left,
                   test_batches, test_loss, train_loss_history,
                   test_loss_history, checkpoint, embVars, dataVars>>

\* the training loader is exhausted
TrainEnd ==
    /\ rpc = "train"
    /\ train_left = 0
    /\ rpc' = "test"
    /\ UNCHANGED <<n_epochs, batch_size, train_n, test_n, epoch, train_left,
                   test_left, train_batches, test_batches, train_loss,
                   test_loss, train_loss_history, test_loss_history, params,
                   grad, checkpoint, embVars, dataVars>>

\* A test batch that also backpropagates and steps the optimizer.
TestBatchStepping ==
    /\ rpc = "test"
    /\ test_left > 0
    /\ \E batch_loss \in LossVals : test_loss' = test_loss + batch_loss
    /\ grad' = params + 1
    /\ params' = params + 1
    /\ test_left' = test_left - 1
    /\ test_batches' = test_batches + 1
    /\ UNCHANGED <<rpc, n_epochs, batch_size, train_n, test_n, epoch, train_left,
                   train_batches, train_loss, train_loss_history,
                   test_loss_history, checkpoint, embVars, dataVars>>

\* lines 248-253: one test batch, forward only under torch.no_grad()
TestBatch ==
    /\ rpc = "test"
    /\ test_left > 0
    /\ \E batch_loss \in LossVals : test_loss' = test_loss + batch_loss
    /\ test_left' = test_left - 1
    /\ test_batches' = test_batches + 1
    /\ UNCHANGED <<rpc, n_epochs, batch_size, train_n, test_n, epoch, train_left,
                   train_batches, train_loss, train_loss_history,
                   test_loss_history, params, grad, checkpoint, embVars,
                   dataVars>>

\* the test loader is exhausted
TestEnd ==
    /\ rpc = "test"
    /\ test_left = 0
    /\ rpc' = "append"
    /\ UNCHANGED <<n_epochs, batch_size, train_n, test_n, epoch, train_left,
                   test_left, train_batches, test_batches, train_loss,
                   test_loss, train_loss_history, test_loss_history, params,
                   grad, checkpoint, embVars, dataVars>>

\* Appends the train loss only.
AppendTrainOnly ==
    /\ rpc = "append"
    /\ train_loss_history' = Append(train_loss_history, train_loss)
    /\ rpc' = "save"
    /\ UNCHANGED <<n_epochs, batch_size, train_n, test_n, epoch, train_left,
                   test_left, train_batches, test_batches, train_loss,
                   test_loss, test_loss_history, params, grad, checkpoint,
                   embVars, dataVars>>

\* lines 255-261: both histories get this epoch's loss (and it is printed)
AppendHistory ==
    /\ rpc = "append"
    /\ train_loss_history' = Append(train_loss_history, train_loss)
    /\ test_loss_history' = Append(test_loss_history, test_loss)
    /\ rpc' = "save"
    /\ UNCHANGED <<n_epochs, batch_size, train_n, test_n, epoch, train_left,
                   test_left, train_batches, test_batches, train_loss,
                   test_loss, params, grad, checkpoint, embVars, dataVars>>

\* Saves only every second epoch.
SaveModelEverySecond ==
    /\ rpc = "save"
    /\ checkpoint' = IF epoch % 2 = 0
                     THEN save_model(params, optimizer_state_dict, epoch)
                     ELSE checkpoint
    /\ rpc' = "for"
    /\ UNCHANGED <<n_epochs, batch_size, train_n, test_n, epoch, train_left,
                   test_left, train_batches, test_batches, train_loss,
                   test_loss, train_loss_history, test_loss_history, params,
                   grad, embVars, dataVars>>

\* line 263: save_model(model, optimizer, epoch, save_as + '.model_save')
SaveModel ==
    /\ rpc = "save"
    /\ checkpoint' = save_model(params, optimizer_state_dict, epoch)
    /\ rpc' = "for"
    /\ UNCHANGED <<n_epochs, batch_size, train_n, test_n, epoch, train_left,
                   test_left, train_batches, test_batches, train_loss,
                   test_loss, train_loss_history, test_loss_history, params,
                   grad, embVars, dataVars>>

\* line 265: range(1, n_epochs + 1) is exhausted
Return ==
    /\ rpc = "for"
    /\ epoch >= n_epochs
    /\ rpc' = "done"
    /\ UNCHANGED <<n_epochs, batch_size, train_n, test_n, epoch, train_left,
                   test_left, train_batches, test_batches, train_loss,
                   test_loss, train_loss_history, test_loss_history, params,
                   grad, checkpoint, embVars, dataVars>>

\* ------------------------------------------------------------ specifications
\* The parts a specification leaves idle.
EmbIdle == method = "none" /\ tpc = "idle" /\ emb = [res |-> [outcome |-> "none"]]

DataIdle ==
    /\ csv_file = NoFile /\ dpc = "idle"
    /\ labels = <<>> /\ seqs = <<>> /\ log10_ka = <<>> /\ _longest_seq = 0
    /\ item = [res |-> [outcome |-> "none"]]
    /\ train_set = <<>> /\ test_set = <<>>

RunIdle ==
    /\ rpc = "idle" /\ n_epochs = 0 /\ batch_size = 0 /\ train_n = 0 /\ test_n = 0
    /\ epoch = 0 /\ train_left = 0 /\ test_left = 0
    /\ train_batches = 0 /\ test_batches = 0 /\ train_loss = 0 /\ test_loss = 0
    /\ train_loss_history = <<>> /\ test_loss_history = <<>>
    /\ params = 0 /\ grad = 0 /\ checkpoint = NoFile

\* The embedder alone: a Transformer is built and embed is called.
InitEmbed ==
    /\ method = "none" /\ tpc = "new" /\ emb = [res |-> [outcome |-> "none"]]
    /\ DataIdle /\ RunIdle

NextEmbed == TransformerInit \/ Embed

SpecEmbed == InitEmbed /\ [][NextEmbed]_vars

\* The dataset: a csv file with a header and up to MaxRows rows (or no file),
\* a built Transformer; then __getitem__ calls and the split.
LineVals == {Line("a", <<"A">>, "1.0"),
             Line("b", <<"C", "Z">>, "3.0"),
             Line("c", <<"Z", "A", "C">>, "1.5"),
             Line("a", <<"A", "J">>, "1.5"),
             Line("d", <<"C", "Z">>, "1.0")}

InitData ==
    /\ method \in {"one_hot", "tape"} /\ tpc = "ready"
    /\ emb = [res |-> [outcome |-> "none"]]
    /\ csv_file \in {NoFile}
                    \cup {[exists |-> TRUE, lines |-> <<Header>> \o rows] :
                             rows \in SeqsUpTo(LineVals, MaxRows)}
    /\ dpc = "new"
    /\ labels = <<>> /\ seqs = <<>> /\ log10_ka = <<>> /\ _longest_seq = 0
    /\ item = [res |-> [outcome |-> "none"]]
    /\ train_set = <<>> /\ test_set = <<>>
    /\ RunIdle

NextData == LoadCsv \/ GetItem \/ RandomSplit

SpecData == InitData /\ [][NextData]_vars

\* The training loop: run_lstm called on a train_set and a test_set of up to
\* MaxSplit samples each. A DataLoader over an empty subset yields no batch.
InitTrain ==
    /\ EmbIdle /\ DataIdle
    /\ rpc = "call"
    /\ n_epochs \in 0..MaxEpochs
    /\ batch_size \in BatchSizeArgs
    /\ train_n \in 0..MaxSplit
    /\ test_n \in 0..MaxSplit
    /\ epoch = 0 /\ train_left = 0 /\ test_left = 0
    /\ train_batches = 0 /\ test_batches = 0 /\ train_loss = 0 /\ test_loss = 0
    /\ train_loss_history = <<>> /\ test_loss_history = <<>>
    /\ params = 0 /\ grad = 0 /\ checkpoint = NoFile

NextTrain ==
    \/ RunLstm \/ EpochBegin \/ TrainBatch \/ TrainEnd \/ TestBatch \/ TestEnd
    \/ AppendHistory \/ SaveModel \/ Return

SpecTrain == InitTrain /\ [][NextTrain]_vars

\* ------------------------------------------------------------------ claims
\* C1: for both strategies and every s with len(s) <= max_length,
\* embed(max_length, s) returns a tensor whose leading dimension is max_length.
C1_PaddingInvariant ==
    (emb.res.outcome = "return" /\ Len(emb.seq) <= emb.max_len)
        => emb.res.shape[1] = emb.max_len

HasUnknownChar(seq) == \E i \in 1..Len(seq) : ~in_vocab(seq[i])

\* C2: with the one-hot strategy, embed on a sequence with a character the
\* tokenizer cannot tokenize logs to stderr and exits, instead of letting the
\* tokenizer's exception escape.
C2_TokenizeFailureExits ==
    (method = "one_hot" /\ emb.res.outcome # "none" /\ HasUnknownChar(emb.seq))
        => emb.res.outcome = "exit"

IsUnitVector(row) ==
    /\ \A c \in 1..Len(row) : row[c] \in {0, 1}
    /\ Cardinality({c \in 1..Len(row) : row[c] = 1}) = 1

\* C8: with the one-hot strategy every position's embedding is a unit vector
\* whose width is the tokenizer's vocabulary size, whatever tokens occur.
C8_OneHotWidth ==
    (method = "one_hot" /\ emb.res.outcome = "return")
        => \A p \in 1..Len(emb.res.rows) :
              /\ IsUnitVector(emb.res.rows[p])
              /\ Len(emb.res.rows[p]) = vocab_size

Called == item.res.outcome # "none"

ExitsNaming(idx) ==
    /\ item.res.outcome = "exit"
    /\ item.res.stderr.idx = idx
    /\ item.res.stderr.length = __len__

\* C3 as stated: for every index i outside 0..n-1, item_at(i) returns no item
\* and exits with a diagnostic naming i and n.
C3_OutsideZeroToN ==
    (Called /\ item.idx \notin 0..(__len__ - 1)) => ExitsNaming(item.idx)

\* C3 amended: for every index i with i >= n or i < -n, item_at(i) returns no
\* item and exits with a diagnostic naming i and n; an index in -n..-1
\* addresses row n + i as Python lists do.
C3_OutsideListRange ==
    /\ (Called /\ (item.idx >= __len__ \/ item.idx < -__len__))
          => ExitsNaming(item.idx)
    /\ (Called /\ item.idx \in (-__len__)..(-1) /\ item.res.outcome = "return")
          => /\ item.res.label = labels[__len__ + item.idx + 1]
             /\ item.res.target = log10_ka[__len__ + item.idx + 1]

C3_Witness ==
    /\ __len__ = 2
    /\ item.res.outcome = "exit"
    /\ item.idx = -3

Loaded == dpc \in {"loaded", "split", "dead"}

DataRows == Tail(csv_file.lines)

\* C10: after a load from a header and r data rows, the length is r, the
\* three lists have r entries aligned by row, item_at(i) returns row i's
\* identifier and target, and max_length is the largest sequence length.
C10_LoadedDataset ==
    Loaded =>
      /\ __len__ = Len(DataRows)
      /\ Len(labels) = Len(DataRows)
      /\ Len(seqs) = Len(DataRows)
      /\ Len(log10_ka) = Len(DataRows)
      /\ \A i \in 1..Len(DataRows) :
            /\ labels[i] = DataRows[i][1]
            /\ seqs[i] = DataRows[i][2]
            /\ log10_ka[i] = np_float32(DataRows[i][15]).value
            /\ _longest_seq >= Len(seqs[i])
      /\ \E i \in 1..Len(DataRows) : _longest_seq = Len(DataRows[i][2])
      /\ (item.res.outcome = "return" /\ item.idx >= 0)
            => /\ item.res.label = DataRows[item.idx + 1][1]
               /\ item.res.target = np_float32(DataRows[item.idx + 1][15]).value

C10_Witness ==
    /\ dpc = "loaded"
    /\ __len__ = 3
    /\ Len(seqs[1]) < Len(seqs[2])
    /\ Len(seqs[3]) < Len(seqs[2])
    /\ _longest_seq = Len(seqs[2])
    /\ item.res.outcome = "return"
    /\ item.idx = 2

\* C9: the train and test partitions are disjoint, their sizes sum to n, and
\* the train size is 0.8 * n rounded down, for every dataset length n.
C9_SplitSizes ==
    /\ \A n \in 0..MaxN :
          /\ TRAIN_SIZE(n) + TEST_SIZE(n) = n
          /\ 10 * TRAIN_SIZE(n) <= 8 * n
          /\ 8 * n < 10 * (TRAIN_SIZE(n) + 1)
    /\ dpc = "split" =>
          /\ Len(train_set) = TRAIN_SIZE(__len__)
          /\ Len(test_set) = __len__ - Len(train_set)
          /\ Range(train_set) \cap Range(test_set) = {}
          /\ Range(train_set) \cup Range(test_set) = 0..(__len__ - 1)
          /\ Cardinality(Range(train_set)) = Len(train_set)
          /\ Cardinality(Range(test_set)) = Len(test_set)

C9_Witness ==
    /\ dpc = "split"
    /\ __len__ = 3
    /\ Len(train_set) = 2
    /\ Len(test_set) = 1

\* C4: the loop's batch size is the batch_size argument: one epoch with a
\* batch_size larger than the dataset (both subsets non-empty) runs exactly
\* one train batch and one test batch and appends one entry to each history.
C4_BatchSizeArgument ==
    (/\ rpc = "done" /\ n_epochs = 1
     /\ train_n >= 1 /\ test_n >= 1
     /\ batch_size > train_n + test_n)
        => /\ train_batches = 1
           /\ test_batches = 1
           /\ Len(train_loss_history) = 1
           /\ Len(test_loss_history) = 1

InEpoch == rpc \in {"train", "test", "append", "save"}

\* C5: the checkpoint is written at the end of every epoch, after both
\* histories got the epoch's entry and before the next epoch starts; the one
\* written after epoch k holds epoch k, and after n epochs the file holds n.
C5_CheckpointPerEpoch ==
    /\ (rpc \in {"for", "done"} /\ epoch >= 1)
          => /\ checkpoint.exists
             /\ checkpoint.epoch = epoch
             /\ checkpoint.model_state_dict = params
             /\ Len(train_loss_history) = epoch
             /\ Len(test_loss_history) = epoch
    /\ (InEpoch /\ epoch = 1) => ~checkpoint.exists
    /\ (InEpoch /\ epoch > 1) => checkpoint.exists /\ checkpoint.epoch = epoch - 1
    /\ rpc = "save" => /\ Len(train_loss_history) = epoch
                       /\ Len(test_loss_history) = epoch
    /\ (rpc = "done" /\ n_epochs >= 1)
          => checkpoint.exists /\ checkpoint.epoch = n_epochs

C5_Witness ==
    /\ rpc = "done"
    /\ n_epochs = 2
    /\ checkpoint.exists
    /\ checkpoint.epoch = 2
    /\ checkpoint.model_state_dict >= 2

\* C6: the test pass changes neither the model parameters nor the gradients
\* the optimizer works from; the parameters change only in the optimizer
\* step of a training batch.
C6_TestPassFrame ==
    [][/\ rpc = "test" => (params' = params /\ grad' = grad)
       /\ params' # params => (rpc = "train" /\ rpc' = "train")]_vars

C6_Witness ==
    /\ rpc = "append"
    /\ test_batches = 2
    /\ train_batches >= 1
    /\ params >= 1

\* C7: after run with n epochs both histories have exactly n entries, one
\* appended per completed epoch (k entries after k completed epochs), the
\* k-th being the loss summed in epoch k.
C7_HistoryLengths ==
    /\ rpc = "done" => /\ Len(train_loss_history) = n_epochs
                       /\ Len(test_loss_history) = n_epochs
    /\ rpc = "for" => /\ Len(train_loss_history) = epoch
                      /\ Len(test_loss_history) = epoch
    /\ rpc \in {"train", "test", "append"}
          => /\ Len(train_loss_history) = epoch - 1
             /\ Len(test_loss_history) = epoch - 1
    /\ rpc = "save" => /\ Len(train_loss_history) = epoch
                       /\ Len(test_loss_history) = epoch
                       /\ train_loss_history[epoch] = train_loss
                       /\ test_loss_history[epoch] = test_loss

C7_Witness ==
    /\ rpc = "done"
    /\ Len(train_loss_history) = 2
    /\ Len(test_loss_history) = 2
    /\ train_loss_history[2] # test_loss_history[2]

====
